---- MODULE Spec2Model ----
\* Track management client (CreateTrack, TrackDetail, TrackList, Dashboard)
\* running against the record store defined by the schema migration.
\* Each browser session is a set of mounted components plus the handler
\* invocations that are suspended on a store request.
EXTENDS Integers, Sequences, FiniteSets, TLC

\* ---------------------------------------------------------------- bounds
MaxTracks == 2
MaxUpdates == 2
MaxTime == 1
RandBits == 9
MaxClock == 40

\* ------------------------------------------------------------ enumerations
Statuses == {"pending", "in_progress", "completed", "cancelled"}
Priorities == {"low", "medium", "high", "urgent"}

\* session 1 is a browser session with its components; client 2 is another
\* session (another tab or device), seen only through the requests its
\* handlers send to the store
Sessions == {1}
Other == 2
Clients == Sessions \cup {Other}
Users == {"u1", "u2"}

\* ---------------------------------------------------------------- strings
\* A string is a sequence of one-character strings.
Digits36 ==
  << "0", "1", "2", "3", "4", "5", "6", "7", "8", "9", "a", "b", "c", "d",
     "e", "f", "g", "h", "i", "j", "k", "l", "m", "n", "o", "p", "q", "r",
     "s", "t", "u", "v", "w", "x", "y", "z" >>

Upper36 ==
  << "0", "1", "2", "3", "4", "5", "6", "7", "8", "9", "A", "B", "C", "D",
     "E", "F", "G", "H", "I", "J", "K", "L", "M", "N", "O", "P", "Q", "R",
     "S", "T", "U", "V", "W", "X", "Y", "Z" >>

Chars(s) == {s[i] : i \in 1..Len(s)}

\* String.prototype.toUpperCase, one character
UpperChar(c) ==
  IF \E i \in 1..36 : Digits36[i] = c
  THEN Upper36[CHOOSE i \in 1..36 : Digits36[i] = c]
  ELSE c

toUpperCase(s) == [i \in 1..Len(s) |-> UpperChar(s[i])]

\* String.prototype.substring(start, end), 0-based, end exclusive, clipped
substring(s, start, end) ==
  SubSeq(s, start + 1, IF end < Len(s) THEN end ELSE Len(s))

\* Number.prototype.toString(36) of a non-negative integer
RECURSIVE IntToString36(_)
IntToString36(n) ==
  IF n < 36
  THEN << Digits36[n + 1] >>
  ELSE IntToString36(n \div 36) \o << Digits36[(n % 36) + 1] >>

RECURSIVE Pow2(_)
Pow2(n) == IF n = 0 THEN 1 ELSE 2 * Pow2(n - 1)

\* Math.random() yields num / RandDenom, a dyadic fraction in [0, 1)
RandDenom == Pow2(RandBits)

\* fraction digits of num / den in radix 36 (exact, until the fraction is 0)
RECURSIVE FracDigits36(_, _)
FracDigits36(num, den) ==
  IF num = 0
  THEN << >>
  ELSE << Digits36[((num * 36) \div den) + 1] >>
       \o FracDigits36((num * 36) % den, den)

\* Number.prototype.toString(36) of num / RandDenom in [0, 1)
FractionToString36(num) ==
  IF num = 0
  THEN << "0" >>
  ELSE << "0", "." >> \o FracDigits36(num, RandDenom)

\* CreateTrack.generateTrackingNumber, given Date.now() and Math.random()
generateTrackingNumber(dateNow, rnd) ==
  LET prefix == << "T", "R", "K" >>
      timestamp == toUpperCase(IntToString36(dateNow))
      random == toUpperCase(substring(FractionToString36(rnd), 2, 6))
  IN  prefix \o << "-" >> \o timestamp \o << "-" >> \o random

\* ------------------------------------------------------------------ state
VARIABLES
  env,            \* what the users do: how many tracks and updates they add,
                  \* how long they stay, which values they put in the forms
  tracks,         \* table tracks: id -> row
  track_updates,  \* table track_updates: set of rows
  nextTrackId,    \* gen_random_uuid() for tracks: ids are never reused
  nextUpdateId,   \* gen_random_uuid() for track_updates
  now,            \* wall clock, read by now() and Date.now()
  user,           \* client -> signed-in identity (useAuth().user.id)
  view,           \* Dashboard.view
  selectedTrack,  \* Dashboard.selectedTrack (0 is null)
  list,           \* TrackList state: tracks (their ids), loading
  detail,         \* TrackDetail state
  create,         \* CreateTrack state: form, loading, error
  tasks,          \* session -> slot -> handler invocation awaiting the store
  other,          \* the other session's handleAddUpdate between its awaits
  created,        \* history: id -> status and tracking number at creation
  appended,       \* history: id -> updates inserted by append-update, in order
  genClock,       \* generateTrackingNumber: value of Date.now()
  genRand,        \* generateTrackingNumber: Math.random(), numerator
  genOut,         \* generateTrackingNumber: returned string (<< >> before)
  loadedTracks,   \* TrackList.tracks as loaded: the rows, in the order loaded
  searchQuery,    \* TrackList.searchQuery
  statusFilter,   \* TrackList.statusFilter
  priorityFilter, \* TrackList.priorityFilter
  sortBy,         \* TrackList.sortBy
  filteredTracks, \* TrackList.filteredTracks
  statsResponse,  \* loadStats: what its select returned (data is null before)
  stats,          \* Dashboard.stats
  statsLoads,     \* the loadStats calls in the order issued, and their answers
  answer,         \* history: session -> slot -> what the store answered last
  track_categories, \* table track_categories: id -> row
  nextCategoryId  \* gen_random_uuid() for track_categories

storeVars == << tracks, track_updates, nextTrackId, nextUpdateId, now >>
uiVars == << view, selectedTrack, list, detail, create, tasks, other >>
histVars == << created, appended >>
genVars == << genClock, genRand, genOut >>
filterVars == << loadedTracks, searchQuery, statusFilter, priorityFilter,
                sortBy, filteredTracks >>
\* what the handlers of the sessions and the store leave alone
statsVars == << statsResponse, stats, statsLoads >>
catVars == << track_categories, nextCategoryId >>
viewVars == << genVars, filterVars, statsVars, catVars >>
sideVars == << viewVars, answer >>
vars == << env, storeVars, user, uiVars, histVars, sideVars >>

\* values the user types or selects in the forms, besides those shown
TitleInputs == env.titles
DescriptionInputs == env.descriptions
StatusInputs == env.statuses
PriorityInputs == env.priorities

\* values Math.random() returns in the sessions, as numerators over RandDenom
RandInputs == env.rands

\* whether a request fails for a reason outside the store (the connection
\* drops, the server errs): either way, or never where env.failures is false
Failures == IF env.failures THEN BOOLEAN ELSE {FALSE}

\* null for a track row
NoTrack ==
  [ id |-> 0, title |-> "", description |-> "", status |-> "",
    priority |-> "", tracking_number |-> << >>, user_id |-> "",
    category_id |-> 0, created_at |-> 0, updated_at |-> 0 ]

\* useState initial values of CreateTrack.form
InitialForm ==
  [ title |-> "", description |-> "", status |-> "pending",
    priority |-> "medium" ]

\* useState initial values of TrackDetail.editForm
InitialEditForm ==
  [ title |-> "", description |-> "", status |-> "", priority |-> "" ]

InitialCreate == [ form |-> InitialForm, loading |-> FALSE, error |-> "" ]

\* pending counts the loadTracks calls that await the store
InitialList == [ tracks |-> {}, loading |-> TRUE, pending |-> 1 ]

InitialDetail ==
  [ track |-> NoTrack, updates |-> << >>, loading |-> TRUE,
    showUpdateForm |-> FALSE, updateForm |-> [ status |-> "" ],
    isEditing |-> FALSE, editForm |-> InitialEditForm ]

\* a component that is not rendered has no state
NoList == [ tracks |-> {}, loading |-> FALSE, pending |-> 0 ]
NoDetail == [ InitialDetail EXCEPT !.loading = FALSE ]

IdleTask ==
  [ kind |-> "idle", pc |-> "", mounted |-> FALSE, trackId |-> 0,
    status |-> "", form |-> InitialEditForm, tn |-> << >>,
    data |-> NoTrack, from |-> "", onlyTitle |-> FALSE ]

\* ------------------------------------------------------------ record store
\* a PATCH body applied to a row
Apply(row, patch) ==
  [ f \in DOMAIN row |-> IF f \in DOMAIN patch THEN patch[f] ELSE row[f] ]

\* tracks without the trigger: an update keeps the old updated_at
update_updated_at_column_NoTrigger(new) == new

\* trigger update_tracks_updated_at (BEFORE UPDATE ON tracks)
update_updated_at_column(new) == [ new EXCEPT !.updated_at = now ]

\* tracking_number without its UNIQUE constraint
TracksInsertError_NotUnique(uid, row) ==
  IF uid # row.user_id THEN "row-level security" ELSE ""

\* policy "Users can insert own tracks" and tracking_number UNIQUE
TracksInsertError(uid, row) ==
  IF uid # row.user_id THEN "row-level security"
  ELSE IF \E id \in DOMAIN tracks :
            tracks[id].tracking_number = row.tracking_number
       THEN "duplicate key"
       ELSE ""

\* the insert leaves the status out and the column takes its default
TracksInsert_DefaultStatus(values) ==
  LET row == Apply([ NoTrack EXCEPT !.id = nextTrackId, !.created_at = now,
                                    !.updated_at = now ],
                   [ values EXCEPT !.status = "pending" ])
  IN  [ id \in DOMAIN tracks \cup {nextTrackId} |->
          IF id = nextTrackId THEN row ELSE tracks[id] ]

\* INSERT INTO tracks: id, created_at and updated_at take their defaults
TracksInsert(values) ==
  LET row == Apply([ NoTrack EXCEPT !.id = nextTrackId, !.created_at = now,
                                    !.updated_at = now ], values)
  IN  [ id \in DOMAIN tracks \cup {nextTrackId} |->
          IF id = nextTrackId THEN row ELSE tracks[id] ]

\* the update clears the tracking number of the row it writes
TracksUpdate_ClearsNumber(uid, trackId, patch) ==
  [ id \in DOMAIN tracks |->
      IF id = trackId /\ tracks[id].user_id = uid
      THEN update_updated_at_column(
             [ Apply(tracks[id], patch) EXCEPT !.tracking_number = << >> ])
      ELSE tracks[id] ]

\* UPDATE tracks SET patch WHERE id = trackId, under "Users can update own
\* tracks": rows of another owner are not visible to the statement
TracksUpdate(uid, trackId, patch) ==
  [ id \in DOMAIN tracks |->
      IF id = trackId /\ tracks[id].user_id = uid
      THEN update_updated_at_column(Apply(tracks[id], patch))
      ELSE tracks[id] ]

\* DELETE FROM tracks WHERE id = trackId, under "Users can delete own tracks"
TracksDeleted(uid, trackId) ==
  {id \in DOMAIN tracks : id = trackId /\ tracks[id].user_id = uid}

TracksDelete(uid, trackId) ==
  [ id \in DOMAIN tracks \ TracksDeleted(uid, trackId) |-> tracks[id] ]

\* track_updates.track_id without ON DELETE CASCADE
TrackUpdatesCascade_None(deleted) == track_updates

\* track_updates.track_id REFERENCES tracks(id) ON DELETE CASCADE
TrackUpdatesCascade(deleted) ==
  {r \in track_updates : r.track_id \notin deleted}

\* the insert policy without its EXISTS: the author is tested, the owner of
\* the track is not
TrackUpdatesInsertError_AuthorOnly(uid, values) ==
  IF /\ uid = values.user_id
     /\ values.track_id \in DOMAIN tracks
  THEN ""
  ELSE "row-level security"

\* policy "Users can insert updates for own tracks" (its EXISTS also covers
\* the foreign key)
TrackUpdatesInsertError(uid, values) ==
  IF /\ uid = values.user_id
     /\ \E id \in DOMAIN tracks :
          id = values.track_id /\ tracks[id].user_id = uid
  THEN ""
  ELSE "row-level security"

\* the insert stores the track's current status, not the selected one
TrackUpdatesInsert_TrackStatus(values) ==
  track_updates \cup
    { [ id |-> nextUpdateId, track_id |-> values.track_id,
        status |-> tracks[values.track_id].status,
        user_id |-> values.user_id, created_at |-> now ] }

\* INSERT INTO track_updates: id and created_at take their defaults
TrackUpdatesInsert(values) ==
  track_updates \cup
    { [ id |-> nextUpdateId, track_id |-> values.track_id,
        status |-> values.status, user_id |-> values.user_id,
        created_at |-> now ] }

\* SELECT * FROM tracks WHERE id = trackId AND user_id = uid, maybeSingle()
SelectTrack(uid, trackId) ==
  IF trackId \in DOMAIN tracks /\ tracks[trackId].user_id = uid
  THEN tracks[trackId]
  ELSE NoTrack

\* SELECT * FROM tracks WHERE user_id = uid (TrackList keeps the rows; the
\* model keeps their ids)
SelectTracks(uid) == {id \in DOMAIN tracks : tracks[id].user_id = uid}

\* rows of track_updates visible under "Users can view updates for own tracks"
VisibleUpdates(uid, trackId) ==
  {r \in track_updates :
     /\ r.track_id = trackId
     /\ \E id \in DOMAIN tracks : id = r.track_id /\ tracks[id].user_id = uid}

\* the query orders with ascending: true
OrderByCreatedAtDesc_Ascending(rows) ==
  LET n == Cardinality(rows)
  IN  {q \in [1..n -> rows] :
         /\ \A i, j \in 1..n : i # j => q[i] # q[j]
         /\ \A i \in 1..n : i < n => q[i].created_at <= q[i + 1].created_at}

\* ORDER BY created_at DESC: every order of the rows that is non-increasing
\* in created_at (rows with equal created_at come in either order)
OrderByCreatedAtDesc(rows) ==
  LET n == Cardinality(rows)
  IN  {q \in [1..n -> rows] :
         /\ \A i, j \in 1..n : i # j => q[i] # q[j]
         /\ \A i \in 1..n : i < n => q[i].created_at >= q[i + 1].created_at}

\* SELECT * FROM track_updates WHERE track_id = trackId ORDER BY created_at DESC
SelectUpdates(uid, trackId) == OrderByCreatedAtDesc(VisibleUpdates(uid, trackId))

\* ------------------------------------------------- components and handlers
DetailKinds == {"load", "addUpdate", "edit", "delete"}
CreateKinds == {"create"}

\* handlers that only read the store
ReadKinds == {"load"}

Slots(s) == DOMAIN tasks[s]

HasFree(ts) == \E k \in DOMAIN ts : ts[k].kind = "idle"

FreeSlot(ts) ==
  CHOOSE k \in DOMAIN ts :
    /\ ts[k].kind = "idle"
    /\ \A j \in DOMAIN ts : j < k => ts[j].kind # "idle"

Put(ts, t) == [ ts EXCEPT ![FreeSlot(ts)] = t ]

InFlight(kind, pc) ==
  Cardinality({ p \in {q \in Sessions \X (1..8) : q[2] \in Slots(q[1])} :
                  tasks[p[1]][p[2]].kind = kind /\ tasks[p[1]][p[2]].pc = pc })

\* the other session is not in handleAddUpdate
NoOther == [ trackId |-> 0, status |-> "" ]

\* the component is unmounted: the state setters of its suspended handlers
\* no longer have an effect; their store requests are still sent
Detach(ts, kinds) ==
  [ k \in DOMAIN ts |->
      IF ts[k].kind \notin kinds THEN ts[k]
      ELSE IF ts[k].kind \in ReadKinds THEN IdleTask
      ELSE [ ts[k] EXCEPT !.mounted = FALSE ] ]

Unmount(s, ts) ==
  CASE view[s] = "list" -> ts
    [] view[s] = "detail" -> Detach(ts, DetailKinds)
    [] view[s] = "create" -> Detach(ts, CreateKinds)

\* TrackDetail.loadTrackDetails up to its first await
LoadTask(trackId, from, status) ==
  [ IdleTask EXCEPT !.kind = "load", !.pc = "track", !.mounted = TRUE,
                    !.trackId = trackId, !.from = from, !.status = status ]

\* Dashboard.handleBack, called with the remaining handlers ts of session s;
\* the new refreshKey runs TrackList.loadTracks
handleBack(s, ts) ==
  /\ view' = [ view EXCEPT ![s] = "list" ]
  /\ selectedTrack' = [ selectedTrack EXCEPT ![s] = 0 ]
  /\ list' = [ list EXCEPT ![s] =
                 IF view[s] = "list"
                 THEN [ @ EXCEPT !.loading = TRUE, !.pending = @ + 1 ]
                 ELSE InitialList ]
  /\ detail' = [ detail EXCEPT ![s] = NoDetail ]
  /\ create' = [ create EXCEPT ![s] = InitialCreate ]
  /\ tasks' = [ tasks EXCEPT ![s] = Unmount(s, ts) ]

Done(s, k) == [ tasks[s] EXCEPT ![k] = IdleTask ]

\* what the user can bring a form field to: what it shows or an input
Field(current, inputs) == {current} \cup inputs

Forms(current) ==
  [ title : Field(current.title, TitleInputs),
    description : Field(current.description, DescriptionInputs),
    status : Field(current.status, StatusInputs),
    priority : Field(current.priority, PriorityInputs) ]

\* the store has not answered any request of the handler
NoAnswer ==
  [ kind |-> "", pc |-> "", error |-> FALSE, mounted |-> FALSE,
    trackId |-> 0, updateId |-> 0 ]

\* the history after the store answered the request of handler k of session
\* s: with an error or not, and for handleAddUpdate with the id of the entry
\* its insert added (kept only where env.answers asks for it)
Answered(s, k, error, updateId) ==
  IF env.answers
  THEN [ answer EXCEPT ![s][k] =
           [ kind |-> tasks[s][k].kind, pc |-> tasks[s][k].pc,
             error |-> error, mounted |-> tasks[s][k].mounted,
             trackId |-> tasks[s][k].trackId, updateId |-> updateId ] ]
  ELSE answer

\* ------------------------------------------------------------------- Init
InitStore ==
  /\ tracks = << >>
  /\ track_updates = {}
  /\ nextTrackId = 1
  /\ nextUpdateId = 1
  /\ now = 0
  /\ created = << >>
  /\ appended = << >>

\* App renders Dashboard for a signed-in user; Dashboard starts in the list
\* view and TrackList's effect has called loadTracks
InitUI(slots) ==
  /\ user = [ c \in Clients |-> "u1" ]
  /\ other = NoOther
  /\ view = [ s \in Sessions |-> "list" ]
  /\ selectedTrack = [ s \in Sessions |-> 0 ]
  /\ list = [ s \in Sessions |-> InitialList ]
  /\ detail = [ s \in Sessions |-> NoDetail ]
  /\ create = [ s \in Sessions |-> InitialCreate ]
  /\ tasks = [ s \in Sessions |-> [ k \in 1..slots[s] |-> IdleTask ] ]
  /\ answer = [ s \in Sessions |-> [ k \in 1..slots[s] |-> NoAnswer ] ]

\* no category exists: no handler of the application writes the table
InitCategories ==
  /\ track_categories = << >>
  /\ nextCategoryId = 1

\* Dashboard.stats as useState creates it; loadStats has not returned
InitStats ==
  /\ statsResponse = [ returned |-> FALSE, data |-> << >> ]
  /\ stats = [ total |-> 0, pending |-> 0, inProgress |-> 0, completed |-> 0 ]
  /\ statsLoads = << >>

\* useState initial values of TrackList; no rows are loaded
InitTrackList ==
  /\ loadedTracks = << >>
  /\ searchQuery = << >>
  /\ statusFilter = "all"
  /\ priorityFilter = "all"
  /\ sortBy = "date"
  /\ filteredTracks = << >>

InitGen ==
  /\ genClock = 0
  /\ genRand = 0
  /\ genOut = << >>

\* one track with its ledger of updates; the forms change the status only
Init ==
  /\ env = [ maxTracks |-> 1, maxUpdates |-> MaxUpdates, maxTime |-> 1,
             titles |-> {"a"}, descriptions |-> {},
             statuses |-> {"completed"}, priorities |-> {},
             rands |-> {1},
             answers |-> FALSE, failures |-> TRUE ]
  /\ InitStore
  /\ InitUI([ s \in Sessions |-> 1 ])
  /\ InitGen
  /\ InitTrackList
  /\ InitStats
  /\ InitCategories

\* ------------------------------------------------------------------ clock
Tick ==
  /\ now < env.maxTime
  /\ now' = now + 1
  /\ UNCHANGED << tracks, track_updates, nextTrackId, nextUpdateId >>
  /\ UNCHANGED << env, user, uiVars, histVars, sideVars >>

\* -------------------------------------------------------------- TrackList
\* loadTracks after its await
LoadTracksDone(s) ==
  /\ view[s] = "list"
  /\ list[s].pending > 0
  /\ \E fail \in Failures :
       list' = [ list EXCEPT ![s] =
                   [ tracks |-> IF fail THEN @.tracks
                                ELSE SelectTracks(user[s]),
                     loading |-> FALSE,
                     pending |-> @.pending - 1 ] ]
  /\ UNCHANGED << storeVars, env, user, other, view, selectedTrack, detail, create, tasks >>
  /\ UNCHANGED << histVars, sideVars >>

\* a track card is clicked: Dashboard.handleViewTrack, TrackDetail mounts and
\* its effect calls loadTrackDetails
handleViewTrack(s, trackId) ==
  /\ view[s] = "list"
  /\ ~list[s].loading
  /\ trackId \in list[s].tracks
  /\ HasFree(tasks[s])
  /\ view' = [ view EXCEPT ![s] = "detail" ]
  /\ selectedTrack' = [ selectedTrack EXCEPT ![s] = trackId ]
  /\ list' = [ list EXCEPT ![s] = NoList ]
  /\ detail' = [ detail EXCEPT ![s] = InitialDetail ]
  /\ tasks' = [ tasks EXCEPT ![s] = Put(@, LoadTask(trackId, "mount", "")) ]
  /\ UNCHANGED << storeVars, env, user, other, create, histVars, sideVars >>

\* the New Track button: setView('create')
NewTrack(s) ==
  /\ view[s] = "list"
  /\ view' = [ view EXCEPT ![s] = "create" ]
  /\ list' = [ list EXCEPT ![s] = NoList ]
  /\ create' = [ create EXCEPT ![s] = InitialCreate ]
  /\ UNCHANGED << storeVars, env, user, other, selectedTrack, detail, tasks >>
  /\ UNCHANGED << histVars, sideVars >>

\* the Back buttons of TrackDetail and the Back and Cancel buttons of
\* CreateTrack: onBack
Back(s) ==
  /\ \/ view[s] = "detail" /\ ~detail[s].loading
     \/ view[s] = "create"
  /\ handleBack(s, tasks[s])
  /\ UNCHANGED << storeVars, env, user, other, histVars, sideVars >>

\* ------------------------------------------------------------ CreateTrack
\* history of the track that the insert of values creates
Remember(values) ==
  /\ created' = [ id \in DOMAIN created \cup {nextTrackId} |->
                    IF id = nextTrackId
                    THEN [ status |-> values.status,
                           tracking_number |-> values.tracking_number ]
                    ELSE created[id] ]
  /\ appended' = [ id \in DOMAIN appended \cup {nextTrackId} |->
                     IF id = nextTrackId THEN << >> ELSE appended[id] ]

\* handleSubmit behind a title input that is not required
handleSubmit_TitleNotRequired(s) ==
  /\ view[s] = "create"
  /\ ~create[s].loading
  /\ HasFree(tasks[s])
  /\ nextTrackId + InFlight("create", "insert") <= env.maxTracks
  /\ \E form \in Forms(create[s].form) :
       /\ create' = [ create EXCEPT ![s].error = "", ![s].loading = TRUE ]
       /\ \E rnd \in RandInputs :
            tasks' = [ tasks EXCEPT ![s] =
                         Put(@, [ IdleTask EXCEPT
                                    !.kind = "create", !.pc = "insert",
                                    !.mounted = TRUE, !.form = form,
                                    !.tn = generateTrackingNumber(now, rnd) ]) ]
  /\ UNCHANGED << storeVars, env, user, other, view, selectedTrack, list, detail >>
  /\ UNCHANGED << histVars, sideVars >>

\* the user fills the form in and submits it: handleSubmit up to its await;
\* the submit button is disabled while loading, the title input is required.
\* What the user typed is the input of the step and lives on in the handler
\* only: no handler reads the controls again before they are reset.
handleSubmit(s) ==
  /\ view[s] = "create"
  /\ ~create[s].loading
  /\ HasFree(tasks[s])
  /\ nextTrackId + InFlight("create", "insert") <= env.maxTracks
  /\ \E form \in Forms(create[s].form) :
       /\ form.title # ""
       /\ create' = [ create EXCEPT ![s].error = "", ![s].loading = TRUE ]
       /\ \E rnd \in RandInputs :
            tasks' = [ tasks EXCEPT ![s] =
                         Put(@, [ IdleTask EXCEPT
                                    !.kind = "create", !.pc = "insert",
                                    !.mounted = TRUE, !.form = form,
                                    !.tn = generateTrackingNumber(now, rnd) ]) ]
  /\ UNCHANGED << storeVars, env, user, other, view, selectedTrack, list, detail >>
  /\ UNCHANGED << histVars, sideVars >>

\* handleSubmit calls onBack whatever the insert answered
CreateInsert_ClosesOnError(s, k) ==
  LET t == tasks[s][k]
      values == [ title |-> t.form.title, description |-> t.form.description,
                  status |-> t.form.status, priority |-> t.form.priority,
                  tracking_number |-> t.tn, user_id |-> user[s] ]
  IN  /\ t.kind = "create"
      /\ \E fail \in Failures :
           LET insertError == IF fail THEN "network"
                              ELSE TracksInsertError(user[s], values)
           IN  /\ answer' = Answered(s, k, insertError # "", 0)
               /\ IF insertError # ""
                  THEN /\ handleBack(s, Done(s, k))
                       /\ UNCHANGED << storeVars, histVars >>
                  ELSE /\ tracks' = TracksInsert(values)
                       /\ nextTrackId' = nextTrackId + 1
                       /\ Remember(values)
                       /\ handleBack(s, Done(s, k))
                       /\ UNCHANGED << track_updates, nextUpdateId, now >>
      /\ UNCHANGED << env, user, other, viewVars >>

\* handleSubmit after its await
CreateInsert(s, k) ==
  LET t == tasks[s][k]
      values == [ title |-> t.form.title, description |-> t.form.description,
                  status |-> t.form.status, priority |-> t.form.priority,
                  tracking_number |-> t.tn, user_id |-> user[s] ]
  IN  /\ t.kind = "create"
      /\ \E fail \in Failures :
           LET insertError == IF fail THEN "network"
                              ELSE TracksInsertError(user[s], values)
           IN  /\ answer' = Answered(s, k, insertError # "", 0)
               /\ IF insertError # ""
                  THEN /\ create' = IF t.mounted
                                    THEN [ create EXCEPT ![s].error = insertError,
                                                         ![s].loading = FALSE ]
                                    ELSE create
                       /\ tasks' = [ tasks EXCEPT ![s] = Done(s, k) ]
                       /\ UNCHANGED << storeVars, view, selectedTrack, list >>
                       /\ UNCHANGED << detail, histVars >>
                  ELSE /\ tracks' = TracksInsert(values)
                       /\ nextTrackId' = nextTrackId + 1
                       /\ Remember(values)
                       /\ handleBack(s, Done(s, k))
                       /\ UNCHANGED << track_updates, nextUpdateId, now >>
      /\ UNCHANGED << env, user, other, viewVars >>

\* ------------------------------------------------------------ TrackDetail
\* the controls of the loaded track are rendered
Rendered(s) ==
  /\ view[s] = "detail"
  /\ ~detail[s].loading
  /\ detail[s].track # NoTrack

\* loadTrackDetails after its first await: the tracks query has answered
LoadTrack(s, k) ==
  /\ tasks[s][k].kind = "load"
  /\ tasks[s][k].pc = "track"
  /\ \E fail \in Failures :
       /\ answer' = Answered(s, k, fail, 0)
       /\ tasks' = [ tasks EXCEPT ![s][k].pc = "updates",
                                  ![s][k].data =
                                    IF fail THEN NoTrack
                                    ELSE SelectTrack(user[s], tasks[s][k].trackId) ]
  /\ UNCHANGED << storeVars, env, user, other, view, selectedTrack, list, detail, create >>
  /\ UNCHANGED << histVars, viewVars >>

\* loadTrackDetails after its second await
LoadUpdates(s, k) ==
  LET t == tasks[s][k]
      trackData == t.data
  IN  /\ t.kind = "load"
      /\ t.pc = "updates"
      /\ \E fail \in Failures :
           \E updatesData \in SelectUpdates(user[s], t.trackId) :
             /\ answer' = Answered(s, k, fail, 0)
             /\ detail' = [ detail EXCEPT ![s] =
                  [ @ EXCEPT
                      !.track = IF trackData # NoTrack THEN trackData ELSE @,
                      !.editForm =
                        IF trackData # NoTrack
                        THEN [ title |-> trackData.title,
                               description |-> trackData.description,
                               status |-> trackData.status,
                               priority |-> trackData.priority ]
                        ELSE @,
                      !.updateForm =
                        IF trackData # NoTrack
                        THEN [ status |-> trackData.status ]
                        ELSE @,
                      !.updates = IF fail THEN @ ELSE updatesData,
                      !.loading = FALSE ] ]
      /\ tasks' = [ tasks EXCEPT ![s] = Done(s, k) ]
      /\ UNCHANGED << storeVars, env, user, other, view, selectedTrack, list, create >>
      /\ UNCHANGED << histVars, viewVars >>

\* the Add Update toggle: setShowUpdateForm(!showUpdateForm)
ToggleUpdateForm(s) ==
  /\ Rendered(s)
  /\ detail' = [ detail EXCEPT ![s].showUpdateForm = ~@ ]
  /\ UNCHANGED << storeVars, env, user, other, view, selectedTrack, list, create, tasks >>
  /\ UNCHANGED << histVars, sideVars >>

\* the user selects a status and clicks Add Update: handleAddUpdate up to its
\* first await
handleAddUpdate(s) ==
  /\ Rendered(s)
  /\ detail[s].showUpdateForm
  /\ HasFree(tasks[s])
  /\ nextUpdateId + InFlight("addUpdate", "insert") <= env.maxUpdates
  /\ \E status \in Field(detail[s].updateForm.status, StatusInputs) :
       tasks' = [ tasks EXCEPT ![s] =
                    Put(@, [ IdleTask EXCEPT
                               !.kind = "addUpdate", !.pc = "insert",
                               !.mounted = TRUE,
                               !.trackId = selectedTrack[s],
                               !.status = status ]) ]
  /\ UNCHANGED << storeVars, env, user, other, view, selectedTrack, list, detail >>
  /\ UNCHANGED create
  /\ UNCHANGED << histVars, sideVars >>

\* handleAddUpdate goes on to the status write whatever the insert answered
AddUpdateInsert_IgnoresError(s, k) ==
  LET t == tasks[s][k]
      values == [ track_id |-> t.trackId, status |-> t.status,
                  user_id |-> user[s] ]
  IN  /\ t.kind = "addUpdate"
      /\ t.pc = "insert"
      /\ \E fail \in Failures :
           LET error == IF fail THEN "network"
                        ELSE TrackUpdatesInsertError(user[s], values)
           IN  /\ answer' =
                    Answered(s, k, error # "",
                             IF error # "" THEN 0 ELSE nextUpdateId)
               /\ IF error # ""
                  THEN UNCHANGED << track_updates, nextUpdateId, appended >>
                  ELSE /\ track_updates' = TrackUpdatesInsert(values)
                       /\ nextUpdateId' = nextUpdateId + 1
                       /\ appended' =
                            [ appended EXCEPT ![t.trackId] =
                                Append(@, [ id |-> nextUpdateId,
                                            status |-> t.status ]) ]
      /\ tasks' = [ tasks EXCEPT ![s][k].pc = "update" ]
      /\ UNCHANGED << tracks, nextTrackId, now, env, user, other, view >>
      /\ UNCHANGED << selectedTrack, list, detail, create, created, viewVars >>

\* handleAddUpdate after its first await: the insert has answered
AddUpdateInsert(s, k) ==
  LET t == tasks[s][k]
      values == [ track_id |-> t.trackId, status |-> t.status,
                  user_id |-> user[s] ]
  IN  /\ t.kind = "addUpdate"
      /\ t.pc = "insert"
      /\ \E fail \in Failures :
           LET error == IF fail THEN "network"
                        ELSE TrackUpdatesInsertError(user[s], values)
           IN  /\ answer' =
                    Answered(s, k, error # "",
                             IF error # "" THEN 0 ELSE nextUpdateId)
               /\ IF error # ""
                  THEN /\ tasks' = [ tasks EXCEPT ![s] = Done(s, k) ]
                       /\ UNCHANGED << track_updates, nextUpdateId, appended >>
                  ELSE /\ track_updates' = TrackUpdatesInsert(values)
                       /\ nextUpdateId' = nextUpdateId + 1
                       /\ appended' =
                            [ appended EXCEPT ![t.trackId] =
                                Append(@, [ id |-> nextUpdateId,
                                            status |-> t.status ]) ]
                       /\ tasks' = [ tasks EXCEPT ![s][k].pc = "update" ]
      /\ UNCHANGED << tracks, nextTrackId, now, env, user, other, view, selectedTrack >>
      /\ UNCHANGED << list, detail, create, created, viewVars >>

\* handleAddUpdate after its second await: the status write has answered (its
\* error is not read), the form is reset and loadTrackDetails is called
AddUpdateWrite(s, k) ==
  LET t == tasks[s][k]
  IN  /\ t.kind = "addUpdate"
      /\ t.pc = "update"
      /\ \E fail \in Failures :
           /\ answer' = Answered(s, k, fail, answer[s][k].updateId)
           /\ tracks' = IF fail THEN tracks
                        ELSE TracksUpdate(user[s], t.trackId,
                                          [ status |-> t.status ])
      /\ IF t.mounted
         THEN /\ detail' = [ detail EXCEPT
                               ![s].updateForm = [ status |-> t.status ],
                               ![s].showUpdateForm = FALSE,
                               ![s].loading = TRUE ]
              /\ tasks' = [ tasks EXCEPT ![s][k] =
                              LoadTask(t.trackId, "addUpdate", t.status) ]
         ELSE /\ detail' = detail
              /\ tasks' = [ tasks EXCEPT ![s] = Done(s, k) ]
      /\ UNCHANGED << track_updates, nextTrackId, nextUpdateId, now, env, user, other >>
      /\ UNCHANGED << view, selectedTrack, list, create, histVars, viewVars >>

\* the Edit / Cancel toggle: setIsEditing(!isEditing)
ToggleEditing(s) ==
  /\ Rendered(s)
  /\ detail' = [ detail EXCEPT ![s].isEditing = ~@ ]
  /\ UNCHANGED << storeVars, env, user, other, view, selectedTrack, list, create, tasks >>
  /\ UNCHANGED << histVars, sideVars >>

\* the edit form differs from the loaded track in the title and only there
OnlyTitleChanged(track, editForm) ==
  /\ editForm.title # track.title
  /\ editForm.description = track.description
  /\ editForm.status = track.status
  /\ editForm.priority = track.priority

\* the user edits the form and clicks Save Changes: handleUpdateTrack up to
\* its await
handleUpdateTrack(s) ==
  /\ Rendered(s)
  /\ detail[s].isEditing
  /\ HasFree(tasks[s])
  /\ \E editForm \in Forms(detail[s].editForm) :
       tasks' = [ tasks EXCEPT ![s] =
                    Put(@, [ IdleTask EXCEPT
                               !.kind = "edit", !.pc = "update",
                               !.mounted = TRUE,
                               !.trackId = selectedTrack[s],
                               !.form = editForm,
                               !.onlyTitle =
                                 OnlyTitleChanged(detail[s].track,
                                                  editForm) ]) ]
  /\ UNCHANGED << storeVars, env, user, other, view, selectedTrack, list, detail >>
  /\ UNCHANGED create
  /\ UNCHANGED << histVars, sideVars >>

\* handleUpdateTrack after its await
EditWrite(s, k) ==
  LET t == tasks[s][k]
  IN  /\ t.kind = "edit"
      /\ \E fail \in Failures :
           /\ answer' = Answered(s, k, fail, 0)
           /\ IF fail
              THEN /\ tasks' = [ tasks EXCEPT ![s] = Done(s, k) ]
                   /\ UNCHANGED << tracks, detail >>
              ELSE /\ tracks' = TracksUpdate(user[s], t.trackId, t.form)
                   /\ IF t.mounted
                      THEN /\ detail' = [ detail EXCEPT ![s].isEditing = FALSE,
                                                        ![s].loading = TRUE ]
                           /\ tasks' = [ tasks EXCEPT ![s][k] =
                                           LoadTask(t.trackId, "edit", "") ]
                      ELSE /\ detail' = detail
                           /\ tasks' = [ tasks EXCEPT ![s] = Done(s, k) ]
      /\ UNCHANGED << track_updates, nextTrackId, nextUpdateId, now, env, user, other >>
      /\ UNCHANGED << view, selectedTrack, list, create >>
      /\ UNCHANGED << histVars, viewVars >>

\* handleDeleteTrack up to its await, the confirm dialog accepted
handleDeleteTrack(s) ==
  /\ Rendered(s)
  /\ HasFree(tasks[s])
  /\ tasks' = [ tasks EXCEPT ![s] =
                  Put(@, [ IdleTask EXCEPT
                             !.kind = "delete", !.pc = "delete",
                             !.mounted = TRUE,
                             !.trackId = selectedTrack[s] ]) ]
  /\ UNCHANGED << storeVars, env, user, other, view, selectedTrack, list, detail, create >>
  /\ UNCHANGED << histVars, sideVars >>

\* the history of a deleted track is dropped with it
Forget(h, deleted) == [ id \in DOMAIN h \ deleted |-> h[id] ]

\* handleDeleteTrack after its await
DeleteTrack(s, k) ==
  LET t == tasks[s][k]
      deleted == TracksDeleted(user[s], t.trackId)
  IN  /\ t.kind = "delete"
      /\ \E fail \in Failures :
           /\ answer' = Answered(s, k, fail, 0)
           /\ IF fail
              THEN /\ tasks' = [ tasks EXCEPT ![s] = Done(s, k) ]
                   /\ UNCHANGED << tracks, track_updates, view, selectedTrack >>
                   /\ UNCHANGED << list, detail, create, histVars >>
              ELSE /\ tracks' = TracksDelete(user[s], t.trackId)
                   /\ track_updates' = TrackUpdatesCascade(deleted)
                   /\ created' = Forget(created, deleted)
                   /\ appended' = Forget(appended, deleted)
                   /\ handleBack(s, Done(s, k))
      /\ UNCHANGED << nextTrackId, nextUpdateId, now, env, user, other, viewVars >>

\* ------------------------------------------------------ the other session
\* The other session runs the same handlers; its components are not part of
\* the state, so its forms hold any of the inputs and each of its requests is
\* one step. Requests that fail leave the store as it is and are left out,
\* but for the status write of handleAddUpdate.
OtherForms ==
  [ title : TitleInputs,
    description : {""} \cup DescriptionInputs,
    status : {"pending"} \cup StatusInputs,
    priority : {"medium"} \cup PriorityInputs ]

\* CreateTrack.handleSubmit in the other session
OtherSubmit ==
  /\ nextTrackId + InFlight("create", "insert") <= env.maxTracks
  /\ \E form \in OtherForms, rnd \in RandInputs :
       LET values == [ title |-> form.title,
                       description |-> form.description,
                       status |-> form.status, priority |-> form.priority,
                       tracking_number |-> generateTrackingNumber(now, rnd),
                       user_id |-> user[Other] ]
       IN  /\ TracksInsertError(user[Other], values) = ""
           /\ tracks' = TracksInsert(values)
           /\ nextTrackId' = nextTrackId + 1
           /\ Remember(values)
  /\ UNCHANGED << track_updates, nextUpdateId, now, env, user, uiVars, sideVars >>

\* TrackDetail.handleAddUpdate in the other session, up to its second await
OtherAddUpdateInsert ==
  /\ other = NoOther
  /\ nextUpdateId + InFlight("addUpdate", "insert") <= env.maxUpdates
  /\ \E trackId \in SelectTracks(user[Other]) :
       \E status \in {"pending"} \cup StatusInputs :
         LET values == [ track_id |-> trackId, status |-> status,
                         user_id |-> user[Other] ]
         IN  /\ TrackUpdatesInsertError(user[Other], values) = ""
             /\ track_updates' = TrackUpdatesInsert(values)
             /\ nextUpdateId' = nextUpdateId + 1
             /\ appended' = [ appended EXCEPT ![trackId] =
                                Append(@, [ id |-> nextUpdateId,
                                            status |-> status ]) ]
             /\ other' = [ trackId |-> trackId, status |-> status ]
  /\ UNCHANGED << tracks, nextTrackId, now, env, user, view, selectedTrack >>
  /\ UNCHANGED << list, detail, create, tasks, created, sideVars >>

\* TrackDetail.handleAddUpdate in the other session, after its second await
OtherAddUpdateWrite ==
  /\ other # NoOther
  /\ \E fail \in Failures :
       tracks' = IF fail THEN tracks
                 ELSE TracksUpdate(user[Other], other.trackId,
                                   [ status |-> other.status ])
  /\ other' = NoOther
  /\ UNCHANGED << track_updates, nextTrackId, nextUpdateId, now, env, user >>
  /\ UNCHANGED << view, selectedTrack, list, detail, create, tasks >>
  /\ UNCHANGED << histVars, sideVars >>

\* TrackDetail.handleUpdateTrack in the other session
OtherUpdateTrack ==
  /\ \E trackId \in SelectTracks(user[Other]), editForm \in OtherForms :
       tracks' = TracksUpdate(user[Other], trackId, editForm)
  /\ UNCHANGED << track_updates, nextTrackId, nextUpdateId, now, env, user >>
  /\ UNCHANGED << uiVars, histVars, sideVars >>

\* TrackDetail.handleDeleteTrack in the other session
OtherDeleteTrack ==
  /\ \E trackId \in SelectTracks(user[Other]) :
       LET deleted == TracksDeleted(user[Other], trackId)
       IN  /\ tracks' = TracksDelete(user[Other], trackId)
           /\ track_updates' = TrackUpdatesCascade(deleted)
           /\ created' = Forget(created, deleted)
           /\ appended' = Forget(appended, deleted)
  /\ UNCHANGED << nextTrackId, nextUpdateId, now, env, user, uiVars, sideVars >>

\* ------------------------------------------------------------------- Next
Next ==
  \/ Tick
  \/ OtherSubmit
  \/ OtherAddUpdateInsert
  \/ OtherAddUpdateWrite
  \/ OtherUpdateTrack
  \/ OtherDeleteTrack
  \/ \E s \in Sessions :
       \/ LoadTracksDone(s)
       \/ NewTrack(s)
       \/ Back(s)
       \/ handleSubmit(s)
       \/ ToggleUpdateForm(s)
       \/ handleAddUpdate(s)
       \/ ToggleEditing(s)
       \/ handleUpdateTrack(s)
       \/ handleDeleteTrack(s)
       \/ \E trackId \in 1..MaxTracks : handleViewTrack(s, trackId)
       \/ \E k \in Slots(s) :
            \/ CreateInsert(s, k)
            \/ LoadTrack(s, k)
            \/ LoadUpdates(s, k)
            \/ AddUpdateInsert(s, k)
            \/ AddUpdateWrite(s, k)
            \/ EditWrite(s, k)
            \/ DeleteTrack(s, k)

Spec == Init /\ [][Next]_vars

\* one track; the forms change title, status and priority
InitEdit ==
  /\ env = [ maxTracks |-> 1, maxUpdates |-> 1, maxTime |-> 1,
             titles |-> {"a", "b"}, descriptions |-> {},
             statuses |-> {"completed"}, priorities |-> {"high"},
             rands |-> {1},
             answers |-> FALSE, failures |-> TRUE ]
  /\ InitStore
  /\ InitUI([ s \in Sessions |-> 1 ])
  /\ InitGen
  /\ InitTrackList
  /\ InitStats
  /\ InitCategories

SpecEdit == InitEdit /\ [][Next]_vars

\* several tracks, created with the default status
InitCreate ==
  /\ env = [ maxTracks |-> MaxTracks, maxUpdates |-> 1, maxTime |-> 1,
             titles |-> {"a"}, descriptions |-> {},
             statuses |-> {}, priorities |-> {},
             rands |-> {1, RandDenom \div 2},
             answers |-> FALSE, failures |-> TRUE ]
  /\ InitStore
  /\ InitUI([ s \in Sessions |-> 1 ])
  /\ InitGen
  /\ InitTrackList
  /\ InitStats
  /\ InitCategories

SpecCreate == InitCreate /\ [][Next]_vars

\* one track with one update, written to at several instants
InitClock ==
  /\ env = [ maxTracks |-> 1, maxUpdates |-> 1, maxTime |-> MaxTime,
             titles |-> {"a"}, descriptions |-> {},
             statuses |-> {"completed"}, priorities |-> {},
             rands |-> {1, RandDenom \div 2},
             answers |-> FALSE, failures |-> TRUE ]
  /\ InitStore
  /\ InitUI([ s \in Sessions |-> 1 ])
  /\ InitGen
  /\ InitTrackList
  /\ InitStats
  /\ InitCategories

SpecClock == InitClock /\ [][Next]_vars

\* ----------------------------------------- the tracking-number generator
\* any clock value and any value of the random source
InitGenerator ==
  /\ env = [ maxTracks |-> 0, maxUpdates |-> 0, maxTime |-> 0,
             titles |-> {}, descriptions |-> {}, statuses |-> {},
             priorities |-> {},
             rands |-> {},
             answers |-> FALSE, failures |-> TRUE ]
  /\ InitStore
  /\ InitUI([ s \in Sessions |-> 1 ])
  /\ genClock \in 0..MaxClock
  /\ genRand \in 0..(RandDenom - 1)
  /\ genOut = << >>
  /\ InitTrackList
  /\ InitStats
  /\ InitCategories

\* CreateTrack.generateTrackingNumber is called
Generate ==
  /\ genOut = << >>
  /\ genOut' = generateTrackingNumber(genClock, genRand)
  /\ UNCHANGED << env, storeVars, user, uiVars, histVars, genClock, genRand >>
  /\ UNCHANGED << filterVars, statsVars, answer, catVars >>

SpecGen == InitGenerator /\ [][Generate]_vars

\* ----------------------------------------------------------------- claims
\* the rows of track_updates that refer to track id
UpdatesOf(id) == {r \in track_updates : r.track_id = id}

\* the most recently created update of a track that has one
Newest(id) ==
  CHOOSE r \in UpdatesOf(id) : \A q \in UpdatesOf(id) : q.id <= r.id

\* C1: when an append-update with status S on track T completes (the handler
\* reports no error, resets its form and reloads the detail view), the stored
\* status of T is S.
C1_AppendSetsStatus ==
  [][\A s \in Sessions : \A k \in Slots(s) :
       (AddUpdateWrite(s, k) /\ tasks[s][k].trackId \in DOMAIN tracks')
         => tracks'[tasks[s][k].trackId].status = tasks[s][k].status]_vars

\* no append-update is between its insert and its status write
NoAppendInProgress ==
  /\ other = NoOther
  /\ \A s \in Sessions : \A k \in Slots(s) : tasks[s][k].kind # "addUpdate"

EditApplied(id) ==
  \/ \E s \in Sessions : \E k \in Slots(s) :
       /\ EditWrite(s, k)
       /\ tasks[s][k].trackId = id
       /\ tracks'[id].status = tasks[s][k].form.status
  \/ /\ OtherUpdateTrack
     /\ \E editForm \in OtherForms :
          tracks' = TracksUpdate(user[Other], id, editForm)

\* the status write of an append-update on track id is applied in this step
AppendApplied(id) ==
  \/ \E s \in Sessions : \E k \in Slots(s) :
       /\ AddUpdateWrite(s, k)
       /\ tasks[s][k].trackId = id
       /\ tracks'[id].status = tasks[s][k].status
  \/ /\ OtherAddUpdateWrite
     /\ other.trackId = id
     /\ tracks'[id].status = other.status

Position(h, uid) == CHOOSE i \in 1..Len(h) : h[i].id = uid

\* C3: the update list of a track has one entry per successful append, each
\* with the status passed when it was appended, newest first: an entry with a
\* later creation time comes first and was appended later. Direct edits add
\* no entry and no action changes or removes one.
C3_LedgerIsAppendOnly ==
  \A id \in DOMAIN tracks :
    \A shown \in SelectUpdates(tracks[id].user_id, id) :
      LET h == appended[id]
      IN  /\ Len(shown) = Len(h)
          /\ \A i \in 1..Len(shown) :
               /\ \E j \in 1..Len(h) : h[j].id = shown[i].id
               /\ h[Position(h, shown[i].id)].status = shown[i].status
          /\ \A i, j \in 1..Len(shown) :
               i < j =>
                 /\ shown[i].created_at >= shown[j].created_at
                 /\ shown[i].created_at > shown[j].created_at
                      => Position(h, shown[i].id) > Position(h, shown[j].id)

\* C3 witness: a track with two updates appended at different times, the
\* second with another status than the first, and edited directly since.
C3_Witness ==
  \E id \in DOMAIN tracks :
    /\ Len(appended[id]) = 2
    /\ appended[id][1].status # appended[id][2].status
    /\ \E r, q \in UpdatesOf(id) : r.created_at < q.created_at
    /\ tracks[id].status # Newest(id).status

\* C4: a track's tracking number is the one the create action gave it; no
\* edit and no append-update changes it.
C4_TrackingNumberImmutable ==
  \A id \in DOMAIN tracks :
    tracks[id].tracking_number = created[id].tracking_number

\* C4 witness: a track that has been written to after its creation and has
\* an update.
C4_Witness ==
  \E id \in DOMAIN tracks :
    /\ tracks[id].updated_at > tracks[id].created_at
    /\ UpdatesOf(id) # {}
    /\ tracks[id].tracking_number # << >>

\* C6: every update entry refers to an existing track: deleting a track
\* removes its update entries.
C6_NoOrphanUpdates ==
  \A r \in track_updates : r.track_id \in DOMAIN tracks

\* C6 witness: a track that had an update has been deleted.
C6_Witness ==
  /\ nextUpdateId > 1
  /\ \E id \in 1..(nextTrackId - 1) :
       /\ id \notin DOMAIN tracks
       /\ \A other_id \in 1..(nextTrackId - 1) : other_id = id
  /\ track_updates = {}

\* C7: a successful create adds exactly one track, with the chosen status and
\* the current user as owner, and no update entry; the track has no update
\* entry until the first append-update on it.
C7_CreateAddsOneTrack ==
  [][/\ \A s \in Sessions : \A k \in Slots(s) :
          (CreateInsert(s, k) /\ tracks' # tracks) =>
            /\ DOMAIN tracks' = DOMAIN tracks \cup {nextTrackId}
            /\ nextTrackId \notin DOMAIN tracks
            /\ \A id \in DOMAIN tracks : tracks'[id] = tracks[id]
            /\ tracks'[nextTrackId].status = tasks[s][k].form.status
            /\ tracks'[nextTrackId].user_id = user[s]
            /\ track_updates' = track_updates
     /\ \A id \in DOMAIN tracks' :
          appended'[id] = << >> => UpdatesOf(id)' = {}
    ]_vars

\* C7 witness: the session has created a track with a status other than the
\* default, and the track has no update.
C7_Witness ==
  \E id \in DOMAIN tracks :
    /\ tracks[id].status = "completed"
    /\ created[id].status = "completed"
    /\ UpdatesOf(id) = {}
    /\ tracks[id].updated_at = tracks[id].created_at
    /\ \E s \in Sessions : view[s] = "list" /\ id \in list[s].tracks

\* the status write of handleAddUpdate has been sent and not yet answered
WriteIssued(t) == t.kind = "addUpdate" /\ t.pc = "update"

\* C8: in an append-update the status write is sent only after the insert
\* was sent and succeeded; when the insert fails no status write is sent and
\* the track's status stays as it is.
C8_InsertBeforeStatusWrite ==
  [][\A s \in Sessions : \A k \in Slots(s) :
       /\ (WriteIssued(tasks'[s][k]) /\ ~WriteIssued(tasks[s][k])) =>
            /\ tasks[s][k].kind = "addUpdate"
            /\ tasks[s][k].pc = "insert"
            /\ \E r \in track_updates' \ track_updates :
                 /\ r.track_id = tasks[s][k].trackId
                 /\ r.status = tasks[s][k].status
       /\ (AddUpdateInsert(s, k) /\ track_updates' = track_updates) =>
            /\ tracks' = tracks
            /\ ~WriteIssued(tasks'[s][k])
    ]_vars

\* C8 witness: a status write is in flight and the update it follows is in
\* the ledger.
C8_Witness ==
  \E s \in Sessions : \E k \in Slots(s) :
    /\ WriteIssued(tasks[s][k])
    /\ \E r \in UpdatesOf(tasks[s][k].trackId) : r.status = tasks[s][k].status
    /\ tracks[tasks[s][k].trackId].status # tasks[s][k].status

\* the characters of uppercase base 36
UpperDigits == {Upper36[i] : i \in 1..36}

\* value of a string of uppercase base-36 digits
RECURSIVE Value36(_)
Value36(str) ==
  IF str = << >>
  THEN 0
  ELSE 36 * Value36(SubSeq(str, 1, Len(str) - 1))
       + ((CHOOSE i \in 1..36 : Upper36[i] = str[Len(str)]) - 1)

\* out is TRK-<clock in uppercase base 36>-<4 uppercase base-36 characters>
WellFormed(out, clock) ==
  \E n \in 1..Len(out) :
    LET timestamp == SubSeq(out, 5, 4 + n)
        suffix == SubSeq(out, 6 + n, Len(out))
    IN  /\ Len(out) = 4 + n + 1 + 4
        /\ SubSeq(out, 1, 4) = << "T", "R", "K", "-" >>
        /\ Chars(timestamp) \subseteq UpperDigits
        /\ (n > 1 => timestamp[1] # "0")
        /\ Value36(timestamp) = clock
        /\ out[5 + n] = "-"
        /\ Len(suffix) = 4
        /\ Chars(suffix) \subseteq UpperDigits

\* C5: an edit in which the user changes only the title leaves the stored
\* status, priority and tracking number of the track as they are when the
\* write is applied.
C5_TitleEditKeepsOtherFields ==
  [][\A s \in Sessions : \A k \in Slots(s) :
       (/\ EditWrite(s, k)
        /\ tasks[s][k].onlyTitle
        /\ tasks[s][k].trackId \in DOMAIN tracks) =>
         LET id == tasks[s][k].trackId
         IN  /\ tracks'[id].status = tracks[id].status
             /\ tracks'[id].priority = tracks[id].priority
             /\ tracks'[id].tracking_number = tracks[id].tracking_number
    ]_vars

\* C9: no two tracks in the store have the same tracking number.
C9_TrackingNumbersUnique ==
  \A id1, id2 \in DOMAIN tracks :
    id1 # id2 => tracks[id1].tracking_number # tracks[id2].tracking_number

\* C9 witness: two tracks are in the store and a create whose candidate was
\* the tracking number of one of them has been rejected.
C9_Witness ==
  /\ Cardinality(DOMAIN tracks) >= 2
  /\ \E s \in Sessions : create[s].error = "duplicate key"

\* C10: whatever the clock and the random source return,
\* generateTrackingNumber returns TRK-<timestamp in uppercase base 36>-<suffix>
\* with a suffix of exactly 4 uppercase base-36 characters.
C10_TrackingNumberFormat ==
  genOut # << >> => WellFormed(genOut, genClock)

\* the candidate tracking number tn is the tracking number of a stored track
Collides(tn) == \E id \in DOMAIN tracks : tracks[id].tracking_number = tn

\* C11: when the insert of a create answers and the candidate tracking number
\* is that of an existing track, no track is added; in the create view that
\* sent it (the user has not left it meanwhile) the error is shown, the view
\* stays open and the submit button is enabled again. Every submit, a retry
\* included, sends a candidate that generateTrackingNumber computes anew from
\* the clock and the random source.
C11_CollisionFailsCreate ==
  [][\A s \in Sessions :
       /\ \A k \in Slots(s) :
            (CreateInsert(s, k) /\ Collides(tasks[s][k].tn)) =>
              /\ tracks' = tracks
              /\ nextTrackId' = nextTrackId
              /\ tasks[s][k].mounted =>
                   /\ view'[s] = "create"
                   /\ create'[s].error # ""
                   /\ ~create'[s].loading
                   /\ HasFree(tasks'[s])
       /\ handleSubmit(s) =>
            \E k \in Slots(s) :
              /\ tasks[s][k].kind = "idle"
              /\ tasks'[s][k].kind = "create"
              /\ \E rnd \in RandInputs :
                   tasks'[s][k].tn = generateTrackingNumber(now, rnd)
    ]_vars

\* C11 witness: the create view shows the store's duplicate-key error next
\* to an enabled submit button, and the colliding track is in the store.
C11_Witness ==
  \E s \in Sessions :
    /\ view[s] = "create"
    /\ create[s].error = "duplicate key"
    /\ ~create[s].loading
    /\ HasFree(tasks[s])
    /\ tracks # << >>

\* ------------------------------------- TrackList: search, filters and sort
\* rows loaded at once
MaxLoaded == 2

\* timestamptz columns count microseconds, a Date counts milliseconds
MicrosPerMilli == 1000

\* updated_at values of the loaded rows, in microseconds: two instants of one
\* millisecond and one of the next
Stamps == {0, 500, 1000}

\* what the user types in the search box
QueryInputs == { << >>, << "B" >>, << "a" >>, << "k", "-", "1" >> }

\* title and description of a loaded row; titles, descriptions and queries
\* are sequences of characters here
TextInputs ==
  { [ title |-> << "a" >>, description |-> << "b" >> ],
    [ title |-> << "B" >>, description |-> << >> ] }

\* columns of a loaded row that differ between rows: both texts, each at two
\* of the stamps, with a status and a priority of which at least one is the
\* value its filter can select
RowInputs ==
  { v \in
      { [ title |-> text.title, description |-> text.description,
          status |-> status, priority |-> priority,
          updated_at |-> updated_at ] :
          text \in TextInputs, status \in {"pending", "completed"},
          priority \in {"medium", "high"}, updated_at \in Stamps } :
      /\ v.status = "completed" \/ v.priority = "high"
      /\ v.title = << "a" >> => v.updated_at < 1000
      /\ v.title = << "B" >> => v.updated_at > 0 }

\* the i-th row loaded, with the values v
Row(i, v) ==
  [ id |-> i, title |-> v.title, description |-> v.description,
    status |-> v.status, priority |-> v.priority,
    tracking_number |-> generateTrackingNumber(i, 1),
    updated_at |-> v.updated_at ]

\* the lists loadTracks can put in TrackList.tracks
LoadedLists ==
  UNION { { [ i \in 1..n |-> Row(i, vs[i]) ] : vs \in [1..n -> RowInputs] } :
          n \in 0..MaxLoaded }

\* the characters of tracking numbers, titles, descriptions and queries
TextChars == Chars(Digits36) \cup Chars(Upper36) \cup {"-"}

\* String.prototype.toLowerCase, character by character
LowerCaseOf ==
  [ c \in TextChars |->
      IF \E i \in 1..36 : Upper36[i] = c
      THEN Digits36[CHOOSE i \in 1..36 : Upper36[i] = c]
      ELSE c ]

LowerChar(c) == LowerCaseOf[c]

toLowerCase(s) == [i \in 1..Len(s) |-> LowerChar(s[i])]

\* String.prototype.includes
includes(s, q) ==
  \E i \in 0..(Len(s) - Len(q)) : SubSeq(s, i + 1, i + Len(q)) = q

\* new Date(timestamp).getTime(): the fraction beyond milliseconds is dropped
getTime(timestamp) == timestamp \div MicrosPerMilli

\* place of a letter or digit in the alphabet, whatever its case
RankOf ==
  [ c \in Chars(Digits36) \cup Chars(Upper36) |->
      CHOOSE i \in 1..36 : Digits36[i] = LowerChar(c) ]

Rank(c) == RankOf[c]

\* first level of the collation: the letters, case apart
RECURSIVE CompareLetters(_, _)
CompareLetters(a, b) ==
  IF a = << >> \/ b = << >>
  THEN IF a = b THEN 0 ELSE IF a = << >> THEN -1 ELSE 1
  ELSE IF Rank(Head(a)) < Rank(Head(b)) THEN -1
  ELSE IF Rank(Head(a)) > Rank(Head(b)) THEN 1
  ELSE CompareLetters(Tail(a), Tail(b))

\* last level of the collation, for equal letters: lower case comes first
RECURSIVE CompareCase(_, _)
CompareCase(a, b) ==
  IF a = << >> \/ b = << >>
  THEN 0
  ELSE IF Head(a) = Head(b) THEN CompareCase(Tail(a), Tail(b))
  ELSE IF Head(a) = LowerChar(Head(a)) THEN -1 ELSE 1

\* String.prototype.localeCompare on strings of letters and digits
localeCompare(a, b) ==
  IF CompareLetters(a, b) # 0 THEN CompareLetters(a, b) ELSE CompareCase(a, b)

\* the comparator filterAndSortTracks passes to sort
compare(a, b) ==
  IF sortBy = "date"
  THEN getTime(b.updated_at) - getTime(a.updated_at)
  ELSE localeCompare(a.title, b.title)

\* Array.prototype.sort with compare, which is stable: an element comes
\* behind those that compare lower, and behind those that compare equal and
\* stood before it
sort(q) ==
  LET Before(i) ==
        {j \in 1..Len(q) : \/ compare(q[j], q[i]) < 0
                           \/ compare(q[j], q[i]) = 0 /\ j < i}
  IN  [ p \in 1..Len(q) |->
          q[CHOOSE i \in 1..Len(q) : Cardinality(Before(i)) = p - 1] ]

\* the query is matched as typed, without toLowerCase
filterAndSortTracks_CaseSensitive ==
  LET InQuery(track) ==
        \/ includes(track.title, searchQuery)
        \/ includes(track.tracking_number, searchQuery)
        \/ includes(track.description, searchQuery)
      HasStatus(track) == track.status = statusFilter
      HasPriority(track) == track.priority = priorityFilter
      bySearch == IF searchQuery # << >>
                  THEN SelectSeq(loadedTracks, InQuery)
                  ELSE loadedTracks
      byStatus == IF statusFilter # "all"
                  THEN SelectSeq(bySearch, HasStatus)
                  ELSE bySearch
      byPriority == IF priorityFilter # "all"
                    THEN SelectSeq(byStatus, HasPriority)
                    ELSE byStatus
  IN  \* filtered is computed once and then sorted
      CHOOSE sorted \in { sort(filtered) : filtered \in {byPriority} } : TRUE

\* TrackList.filterAndSortTracks: the value it passes to setFilteredTracks
filterAndSortTracks ==
  LET query == toLowerCase(searchQuery)
      InQuery(track) ==
        \/ includes(toLowerCase(track.title), query)
        \/ includes(toLowerCase(track.tracking_number), query)
        \/ includes(toLowerCase(track.description), query)
      HasStatus(track) == track.status = statusFilter
      HasPriority(track) == track.priority = priorityFilter
      bySearch == IF searchQuery # << >>
                  THEN SelectSeq(loadedTracks, InQuery)
                  ELSE loadedTracks
      byStatus == IF statusFilter # "all"
                  THEN SelectSeq(bySearch, HasStatus)
                  ELSE bySearch
      byPriority == IF priorityFilter # "all"
                    THEN SelectSeq(byStatus, HasPriority)
                    ELSE byStatus
  IN  \* filtered is computed once and then sorted
      CHOOSE sorted \in { sort(filtered) : filtered \in {byPriority} } : TRUE

\* TrackList is mounted and its rows are not loaded yet
InitFilter ==
  /\ env = [ maxTracks |-> 0, maxUpdates |-> 0, maxTime |-> 0,
             titles |-> {}, descriptions |-> {}, statuses |-> {},
             priorities |-> {}, rands |-> {},
             answers |-> FALSE, failures |-> TRUE ]
  /\ InitStore
  /\ InitUI([ s \in Sessions |-> 1 ])
  /\ InitGen
  /\ InitTrackList
  /\ InitStats
  /\ InitCategories

\* the effect on [tracks, searchQuery, statusFilter, priorityFilter, sortBy]
Refilter ==
  /\ UNCHANGED << env, storeVars, user, uiVars, histVars, genVars, statsVars,
                  answer, catVars, loadedTracks >>
  /\ filteredTracks' = filterAndSortTracks'

\* loadTracks has its rows: setTracks(data)
SetTracks ==
  /\ loadedTracks = << >>
  /\ \E data \in LoadedLists : loadedTracks' = data
  /\ UNCHANGED << searchQuery, statusFilter, priorityFilter, sortBy >>
  /\ UNCHANGED << env, storeVars, user, uiVars, histVars, genVars, statsVars >>
  /\ UNCHANGED << answer, catVars >>
  /\ filteredTracks' = filterAndSortTracks'

\* the search box changes
SetSearchQuery ==
  /\ \E query \in QueryInputs : searchQuery' = query
  /\ UNCHANGED << statusFilter, priorityFilter, sortBy >>
  /\ Refilter

\* the status select changes
SetStatusFilter ==
  /\ \E status \in {"all", "completed"} : statusFilter' = status
  /\ UNCHANGED << searchQuery, priorityFilter, sortBy >>
  /\ Refilter

\* the priority select changes
SetPriorityFilter ==
  /\ \E priority \in {"all", "high"} : priorityFilter' = priority
  /\ UNCHANGED << searchQuery, statusFilter, sortBy >>
  /\ Refilter

\* the sort button
ToggleSortBy ==
  /\ sortBy' = IF sortBy = "date" THEN "title" ELSE "date"
  /\ UNCHANGED << searchQuery, statusFilter, priorityFilter >>
  /\ Refilter

NextFilter ==
  \/ SetTracks
  \/ SetSearchQuery
  \/ SetStatusFilter
  \/ SetPriorityFilter
  \/ ToggleSortBy

SpecFilter == InitFilter /\ [][NextFilter]_vars

\* two characters are the same letter, digit or sign, whatever their case
SameIgnoringCase ==
  [ c \in TextChars |-> [ d \in TextChars |-> UpperChar(c) = UpperChar(d) ] ]

\* q occurs in s, upper and lower case taken as equal
ContainsIgnoringCase(s, q) ==
  \E k \in 0..(Len(s) - Len(q)) :
    \A i \in 1..Len(q) : SameIgnoringCase[s[k + i]][q[i]]

\* the row satisfies every active predicate
Matches(track) ==
  /\ \/ searchQuery = << >>
     \/ ContainsIgnoringCase(track.title, searchQuery)
     \/ ContainsIgnoringCase(track.tracking_number, searchQuery)
     \/ ContainsIgnoringCase(track.description, searchQuery)
  /\ statusFilter = "all" \/ track.status = statusFilter
  /\ priorityFilter = "all" \/ track.priority = priorityFilter

\* C12: the filtered list holds exactly the loaded rows that satisfy all the
\* active predicates (query a case-insensitive substring of title, tracking
\* number or description; status and priority equal to their filter unless it
\* is 'all'), each of them once.
C12_FilterExact ==
  /\ \A i \in 1..Len(filteredTracks) :
       /\ \E j \in 1..Len(loadedTracks) : loadedTracks[j] = filteredTracks[i]
       /\ Matches(filteredTracks[i])
  /\ \A j \in 1..Len(loadedTracks) :
       Matches(loadedTracks[j]) =>
         Cardinality({i \in 1..Len(filteredTracks) :
                        filteredTracks[i].id = loadedTracks[j].id}) = 1

\* C12 witness: with an upper-case query and both filters set, one of two
\* loaded rows is listed, found through its lower-case description only.
C12_Witness ==
  /\ Len(loadedTracks) = 2
  /\ Len(filteredTracks) = 1
  /\ searchQuery = << "B" >>
  /\ statusFilter # "all"
  /\ priorityFilter # "all"
  /\ filteredTracks[1].title = << "a" >>
  /\ filteredTracks[1].description = << "b" >>

\* C13: the filtered list is in the requested order: by date, no row comes
\* before one that was modified later; by title, no row comes before one
\* whose title sorts lower.
C13_SortedAsRequested ==
  \A i \in 1..(Len(filteredTracks) - 1) :
    IF sortBy = "date"
    THEN filteredTracks[i].updated_at >= filteredTracks[i + 1].updated_at
    ELSE localeCompare(filteredTracks[i].title, filteredTracks[i + 1].title) <= 0

(***************************************************************************)
(* Dashboard.loadStats: the four numbers on the dashboard                  *)
(***************************************************************************)

\* longest list of rows the select of loadStats returns
MaxStatRows == 4

\* the fixed status values (the options of both status selects)
StatusValues == {"pending", "in_progress", "completed", "cancelled"}

\* what the select of loadStats can return: the status column of the owner's
\* rows, or no data when the request fails
StatsResponses ==
  { [ returned |-> FALSE, data |-> << >> ] } \cup
  { [ returned |-> TRUE, data |-> data ] :
      data \in UNION { [1..n -> StatusValues] : n \in 0..MaxStatRows } }

\* rows.filter((t) => t.status === status).length
RECURSIVE FilterLength(_, _)
FilterLength(rows, status) ==
  IF rows = << >> THEN 0
  ELSE (IF Head(rows) = status THEN 1 ELSE 0) + FilterLength(Tail(rows), status)

\* loadStats with a mistake: pending counts the rows that are in progress
loadStats_PendingCountsInProgress(response) ==
  IF response.returned
  THEN [ total |-> Len(response.data),
         pending |-> FilterLength(response.data, "in_progress"),
         inProgress |-> FilterLength(response.data, "in_progress"),
         completed |-> FilterLength(response.data, "completed") ]
  ELSE stats

\* the value of Dashboard.stats after loadStats got the response
loadStats(response) ==
  IF response.returned
  THEN [ total |-> Len(response.data),
         pending |-> FilterLength(response.data, "pending"),
         inProgress |-> FilterLength(response.data, "in_progress"),
         completed |-> FilterLength(response.data, "completed") ]
  ELSE stats

\* Dashboard mounts or refreshKey changes: loadStats runs to its end
LoadStats ==
  /\ \E response \in StatsResponses :
       /\ statsResponse' = response
       /\ stats' = loadStats(response)
  /\ UNCHANGED << env, storeVars, user, uiVars, histVars, genVars, filterVars >>
  /\ UNCHANGED statsLoads
  /\ UNCHANGED << answer, catVars >>

InitStatsOnly ==
  /\ env = [ maxTracks |-> 0, maxUpdates |-> 0, maxTime |-> 0,
             titles |-> {}, descriptions |-> {}, statuses |-> {},
             priorities |-> {}, rands |-> {},
             answers |-> FALSE, failures |-> TRUE ]
  /\ InitStore
  /\ InitUI([ s \in Sessions |-> 1 ])
  /\ InitGen
  /\ InitTrackList
  /\ InitStats
  /\ InitCategories

SpecStats == InitStatsOnly /\ [][LoadStats]_vars

\* how many of the returned rows have the status
CountOf(status) ==
  Cardinality({ i \in DOMAIN statsResponse.data :
                  statsResponse.data[i] = status })

\* C14: after loadStats got rows, total is the number of rows and pending,
\* inProgress and completed are the numbers of rows with status pending,
\* in_progress and completed
C14_AggregateCounts ==
  [][LoadStats /\ statsResponse'.returned =>
       /\ stats'.total = Len(statsResponse'.data)
       /\ stats'.pending = CountOf("pending")'
       /\ stats'.inProgress = CountOf("in_progress")'
       /\ stats'.completed = CountOf("completed")']_vars

\* the rows [pending, pending, completed] gave total 3, pending 2,
\* inProgress 0, completed 1
C14_Witness ==
  /\ statsResponse.returned
  /\ statsResponse.data = << "pending", "pending", "completed" >>
  /\ stats = [ total |-> 3, pending |-> 2, inProgress |-> 0, completed |-> 1 ]

\* C15: the per-status counts of the aggregate add up to its total whenever
\* loadStats got rows whose statuses are among the four fixed values
C15_CountsPartitionTotal ==
  (statsResponse.returned
     /\ \A i \in DOMAIN statsResponse.data :
          statsResponse.data[i] \in StatusValues)
  => stats.pending + stats.inProgress + stats.completed = stats.total

(***************************************************************************)
(* Failures: what the user sees and what the store keeps when a request is *)
(* rejected                                                                *)
(***************************************************************************)

\* one track, one update; the history of the store's answers is kept
InitAnswers ==
  /\ env = [ maxTracks |-> 1, maxUpdates |-> 1, maxTime |-> 1,
             titles |-> {"a"}, descriptions |-> {},
             statuses |-> {"completed"}, priorities |-> {},
             rands |-> {1},
             answers |-> TRUE, failures |-> TRUE ]
  /\ InitStore
  /\ InitUI([ s \in Sessions |-> 1 ])
  /\ InitGen
  /\ InitTrackList
  /\ InitStats
  /\ InitCategories

SpecAnswers == InitAnswers /\ [][Next]_vars

\* the store answers the request that handler k of session s awaits
StoreAnswers(s, k) ==
  \/ CreateInsert(s, k)
  \/ LoadTrack(s, k)
  \/ LoadUpdates(s, k)
  \/ AddUpdateInsert(s, k)
  \/ AddUpdateWrite(s, k)
  \/ EditWrite(s, k)
  \/ DeleteTrack(s, k)

\* an error message is on the screen: the alert of CreateTrack is the only
\* element of the three views that renders one
ErrorShown(s) == view[s] = "create" /\ create[s].error # ""

\* C16: whenever the store answers a create, load, append-update (insert or
\* status write), edit or delete request of a mounted view with an error, an
\* error message is shown
C16_RejectionsReported ==
  [][\A s \in Sessions : \A k \in Slots(s) :
       StoreAnswers(s, k) /\ answer'[s][k].error /\ answer'[s][k].mounted
         => ErrorShown(s)']_vars

\* C17: a request that the store answers with an error changes neither tracks
\* nor update entries, and the action it belongs to leaves no entry of its
\* own behind
C17_FailedActionChangesNothing ==
  [][\A s \in Sessions : \A k \in Slots(s) :
       StoreAnswers(s, k) /\ answer'[s][k].error
         => /\ tracks' = tracks
            /\ track_updates' = track_updates
            /\ \A r \in track_updates' : r.id # answer'[s][k].updateId]_vars

\* C18: when loadTrackDetails completes and found no track of the user with
\* the id, and there is none, the view is not loading and holds no track
\* ('Track not found')
C18_MissingTrackNotFound ==
  [][\A s \in Sessions : \A k \in Slots(s) :
       ( /\ LoadUpdates(s, k)
         /\ tasks[s][k].mounted
         /\ tasks[s][k].data = NoTrack
         /\ SelectTrack(user[s], tasks[s][k].trackId) = NoTrack )
         => /\ ~detail'[s].loading
            /\ detail'[s].track = NoTrack]_vars

\* C19: no create request is ever sent with an empty title: the form of
\* every handleSubmit that awaits the store has a title, so no insert of a
\* track without one is issued
C19_EmptyTitleNeverSent ==
  \A s \in Sessions : \A k \in Slots(s) :
    tasks[s][k].kind = "create" => tasks[s][k].form.title # ""

\* the create view is open with its title field left empty, the submit
\* button is enabled, and no request is on its way
C19_Witness ==
  \E s \in Sessions :
    /\ view[s] = "create"
    /\ create[s].form.title = ""
    /\ ~create[s].loading
    /\ HasFree(tasks[s])
    /\ nextTrackId <= env.maxTracks
    /\ \A k \in Slots(s) : tasks[s][k].kind # "create"
    /\ tracks = << >>

(***************************************************************************)
(* Row-level security: two identities send any requests to the three       *)
(* tables                                                                  *)
(***************************************************************************)

\* most categories ever inserted
MaxCategories == 1

\* policy "Users can view own categories"
SelectCategories(uid) ==
  {id \in DOMAIN track_categories : track_categories[id].user_id = uid}

\* a foreign key holds: the column is null or names a row of the table,
\* whoever owns that row (the store looks it up outside the caller's policies)
References(key, rows) == key = 0 \/ key \in DOMAIN rows

\* INSERT INTO track_categories under "Users can insert own categories"
InsertCategory(uid) ==
  /\ nextCategoryId <= MaxCategories
  /\ \E owner \in Users :
       /\ uid = owner
       /\ track_categories' =
            [ id \in DOMAIN track_categories \cup {nextCategoryId} |->
                IF id = nextCategoryId
                THEN [ id |-> id, name |-> "c", user_id |-> owner ]
                ELSE track_categories[id] ]
  /\ nextCategoryId' = nextCategoryId + 1
  /\ UNCHANGED << storeVars, env, user, uiVars, histVars >>
  /\ UNCHANGED << genVars, filterVars, statsVars, answer >>

\* UPDATE track_categories SET patch WHERE id = ..., under "Users can update
\* own categories": USING on the old row, WITH CHECK on the new one
UpdateCategory(uid, categoryId) ==
  /\ categoryId \in SelectCategories(uid)
  /\ \E patch \in { [ name |-> "d" ] } \cup { [ user_id |-> o ] : o \in Users } :
       LET new == Apply(track_categories[categoryId], patch)
       IN  /\ new.user_id = uid
           /\ track_categories' =
                [ track_categories EXCEPT ![categoryId] = new ]
  /\ UNCHANGED << storeVars, env, user, uiVars, histVars, nextCategoryId >>
  /\ UNCHANGED << genVars, filterVars, statsVars, answer >>

\* tracks.category_id REFERENCES track_categories(id) ON DELETE SET NULL: the
\* store updates every referencing row, whoever owns it
TracksSetNull(deleted) ==
  [ id \in DOMAIN tracks |->
      IF tracks[id].category_id \in deleted
      THEN update_updated_at_column([ tracks[id] EXCEPT !.category_id = 0 ])
      ELSE tracks[id] ]

\* DELETE FROM track_categories WHERE id = ..., under "Users can delete own
\* categories"
DeleteCategory(uid, categoryId) ==
  /\ categoryId \in SelectCategories(uid)
  /\ track_categories' =
       [ id \in DOMAIN track_categories \ {categoryId} |->
           track_categories[id] ]
  /\ tracks' = TracksSetNull({categoryId})
  /\ UNCHANGED << track_updates, nextTrackId, nextUpdateId, now >>
  /\ UNCHANGED << env, user, uiVars, histVars, nextCategoryId >>
  /\ UNCHANGED << genVars, filterVars, statsVars, answer >>

\* INSERT INTO tracks with any owner and any category in the request
InsertTrack(uid) ==
  /\ nextTrackId <= env.maxTracks
  /\ \E owner \in Users, categoryId \in 0..MaxCategories, rnd \in RandInputs :
       LET values == [ title |-> "a", description |-> "",
                       status |-> "pending", priority |-> "medium",
                       tracking_number |-> generateTrackingNumber(now, rnd),
                       user_id |-> owner, category_id |-> categoryId ]
       IN  /\ TracksInsertError(uid, values) = ""
           /\ References(categoryId, track_categories)
           /\ tracks' = TracksInsert(values)
  /\ nextTrackId' = nextTrackId + 1
  /\ UNCHANGED << track_updates, nextUpdateId, now >>
  /\ UNCHANGED << env, user, uiVars, histVars, catVars >>
  /\ UNCHANGED << genVars, filterVars, statsVars, answer >>

\* what a request can set in a track
TrackPatches ==
  { [ status |-> "completed" ] } \cup
  { [ user_id |-> o ] : o \in Users } \cup
  { [ category_id |-> c ] : c \in 0..MaxCategories }

\* UPDATE tracks SET patch WHERE id = trackId, under "Users can update own
\* tracks": USING picks the rows, WITH CHECK rejects a new row of another
\* owner
UpdateTrack(uid, trackId) ==
  /\ trackId \in SelectTracks(uid)
  /\ \E patch \in TrackPatches :
       /\ Apply(tracks[trackId], patch).user_id = uid
       /\ References(Apply(tracks[trackId], patch).category_id,
                     track_categories)
       /\ tracks' = TracksUpdate(uid, trackId, patch)
  /\ UNCHANGED << track_updates, nextTrackId, nextUpdateId, now >>
  /\ UNCHANGED << env, user, uiVars, histVars, catVars >>
  /\ UNCHANGED << genVars, filterVars, statsVars, answer >>

\* DELETE FROM tracks WHERE id = trackId, any id in the request
RemoveTrack(uid, trackId) ==
  /\ trackId \in DOMAIN tracks
  /\ tracks' = TracksDelete(uid, trackId)
  /\ track_updates' = TrackUpdatesCascade(TracksDeleted(uid, trackId))
  /\ UNCHANGED << nextTrackId, nextUpdateId, now >>
  /\ UNCHANGED << env, user, uiVars, histVars, catVars >>
  /\ UNCHANGED << genVars, filterVars, statsVars, answer >>

\* INSERT INTO track_updates with any track and any owner in the request
InsertUpdate(uid) ==
  /\ nextUpdateId <= env.maxUpdates
  /\ \E trackId \in 1..MaxTracks, owner \in Users :
       LET values == [ track_id |-> trackId, status |-> "completed",
                       user_id |-> owner ]
       IN  /\ TrackUpdatesInsertError(uid, values) = ""
           /\ track_updates' = TrackUpdatesInsert(values)
  /\ nextUpdateId' = nextUpdateId + 1
  /\ UNCHANGED << tracks, nextTrackId, now >>
  /\ UNCHANGED << env, user, uiVars, histVars, catVars >>
  /\ UNCHANGED << genVars, filterVars, statsVars, answer >>

\* the row is visible under "Users can view updates for own tracks"
UpdateVisible(uid, r) ==
  \E id \in DOMAIN tracks : id = r.track_id /\ tracks[id].user_id = uid

\* what a request can set in an update entry
UpdatePatches ==
  { [ status |-> "pending" ] } \cup
  { [ user_id |-> o ] : o \in Users } \cup
  { [ track_id |-> t ] : t \in 1..MaxTracks }

\* UPDATE track_updates SET patch WHERE id = ..., under "Users can update own
\* track updates"; the statement reads the row it filters on, so the old and
\* the new row also have to pass the SELECT policy
UpdateUpdate(uid, r) ==
  /\ r \in track_updates
  /\ r.user_id = uid
  /\ UpdateVisible(uid, r)
  /\ \E patch \in UpdatePatches :
       LET new == Apply(r, patch)
       IN  /\ new.user_id = uid
           /\ UpdateVisible(uid, new)
           /\ track_updates' = (track_updates \ {r}) \cup {new}
  /\ UNCHANGED << tracks, nextTrackId, nextUpdateId, now >>
  /\ UNCHANGED << env, user, uiVars, histVars, catVars >>
  /\ UNCHANGED << genVars, filterVars, statsVars, answer >>

\* DELETE FROM track_updates WHERE id = ..., under "Users can delete own
\* track updates"
DeleteUpdate(uid, r) ==
  /\ r \in track_updates
  /\ r.user_id = uid
  /\ UpdateVisible(uid, r)
  /\ track_updates' = track_updates \ {r}
  /\ UNCHANGED << tracks, nextTrackId, nextUpdateId, now >>
  /\ UNCHANGED << env, user, uiVars, histVars, catVars >>
  /\ UNCHANGED << genVars, filterVars, statsVars, answer >>

\* a request of the identity uid that writes
Request(uid) ==
  \/ InsertCategory(uid)
  \/ \E categoryId \in 1..MaxCategories :
       \/ UpdateCategory(uid, categoryId)
       \/ DeleteCategory(uid, categoryId)
  \/ InsertTrack(uid)
  \/ \E trackId \in 1..MaxTracks :
       \/ UpdateTrack(uid, trackId)
       \/ RemoveTrack(uid, trackId)
  \/ InsertUpdate(uid)
  \/ \E r \in track_updates :
       \/ UpdateUpdate(uid, r)
       \/ DeleteUpdate(uid, r)

NextRls == \E uid \in Users : Request(uid)

\* no session of the application is active; the store is empty
InitRls ==
  /\ env = [ maxTracks |-> MaxTracks, maxUpdates |-> 1, maxTime |-> 0,
             titles |-> {"a"}, descriptions |-> {}, statuses |-> {},
             priorities |-> {}, rands |-> {1, RandDenom \div 2},
             answers |-> FALSE, failures |-> TRUE ]
  /\ InitStore
  /\ InitUI([ s \in Sessions |-> 1 ])
  /\ InitGen
  /\ InitTrackList
  /\ InitStats
  /\ InitCategories

SpecRls == InitRls /\ [][NextRls]_vars

\* the rows of the three tables that belong to the identity
OwnedCategories(uid) ==
  {c \in {track_categories[id] : id \in DOMAIN track_categories} :
     c.user_id = uid}

OwnedTracks(uid) ==
  {t \in {tracks[id] : id \in DOMAIN tracks} : t.user_id = uid}

OwnedUpdates(uid) == {r \in track_updates : r.user_id = uid}

\* a select of uid returns rows of uid only
ReadsOwnRows(uid) ==
  /\ \A id \in SelectCategories(uid) : track_categories[id].user_id = uid
  /\ \A id \in SelectTracks(uid) : tracks[id].user_id = uid
  /\ \A trackId \in 1..MaxTracks :
       \A r \in VisibleUpdates(uid, trackId) : r.user_id = uid

\* C20: for distinct identities A and B, after any request of A every
\* select of A returns rows of A only, no insert, update or delete of A on the
\* three tables adds, changes or removes a row of B, and an update entry that
\* A inserts is on a track of A
C20_OwnersIsolated ==
  [][\A A \in Users : \A B \in Users \ {A} :
       Request(A) =>
         /\ ReadsOwnRows(A)'
         /\ OwnedCategories(B)' = OwnedCategories(B)
         /\ OwnedTracks(B)' = OwnedTracks(B)
         /\ OwnedUpdates(B)' = OwnedUpdates(B)
         /\ \A r \in track_updates' \ track_updates :
              InsertUpdate(A) =>
                \E t \in OwnedTracks(A) : t.id = r.track_id]_vars

\* the status in the badge of the detail view: track.status
ShownStatus(s) == detail[s].track.status

\* C21: whenever the detail view shows a track that has update entries, the
\* status in its badge is the status of the newest entry it loaded, also when
\* the stored status of the track differs from it
C21_ShowsNewestUpdateStatus ==
  \A s \in Sessions :
    (Rendered(s) /\ ~detail[s].isEditing /\ detail[s].updates # << >>)
      => ShownStatus(s) = detail[s].updates[1].status

(***************************************************************************)
(* A session whose handlers can overlap: two of them may await the store   *)
(***************************************************************************)

\* handlers that write to the store
WriteKinds == {"create", "addUpdate", "edit", "delete"}

InitOverlap ==
  /\ env = [ maxTracks |-> 1, maxUpdates |-> 2, maxTime |-> 1,
             titles |-> {"a"}, descriptions |-> {}, statuses |-> {},
             priorities |-> {}, rands |-> {1},
             answers |-> FALSE, failures |-> TRUE ]
  /\ InitStore
  /\ InitUI([ s \in Sessions |-> 2 ])
  /\ InitGen
  /\ InitTrackList
  /\ InitStats
  /\ InitCategories

SpecOverlap == InitOverlap /\ [][Next]_vars

\* C22: the view of a session never has two requests of the same create,
\* append-update, edit or delete action outstanding
C22_OneRequestPerAction ==
  \A s \in Sessions : \A j, k \in Slots(s) :
    ( /\ tasks[s][j].kind \in WriteKinds
      /\ tasks[s][j].kind = tasks[s][k].kind
      /\ tasks[s][j].mounted
      /\ tasks[s][k].mounted )
      => j = k

(***************************************************************************)
(* Two sessions append updates to the same track; no request fails and no  *)
(* session edits a track                                                   *)
(***************************************************************************)

InitRace ==
  /\ env = [ maxTracks |-> 1, maxUpdates |-> 2, maxTime |-> 1,
             titles |-> {"a"}, descriptions |-> {},
             statuses |-> {"completed"}, priorities |-> {},
             rands |-> {1},
             answers |-> FALSE, failures |-> FALSE ]
  /\ InitStore
  /\ InitUI([ s \in Sessions |-> 1 ])
  /\ InitGen
  /\ InitTrackList
  /\ InitStats
  /\ InitCategories

\* Next without the edit of a track
NextRace ==
  \/ Tick
  \/ OtherSubmit
  \/ OtherAddUpdateInsert
  \/ OtherAddUpdateWrite
  \/ \E s \in Sessions :
       \/ LoadTracksDone(s)
       \/ NewTrack(s)
       \/ Back(s)
       \/ handleSubmit(s)
       \/ ToggleUpdateForm(s)
       \/ handleAddUpdate(s)
       \/ \E trackId \in 1..MaxTracks : handleViewTrack(s, trackId)
       \/ \E k \in Slots(s) :
            \/ CreateInsert(s, k)
            \/ LoadTrack(s, k)
            \/ LoadUpdates(s, k)
            \/ AddUpdateInsert(s, k)
            \/ AddUpdateWrite(s, k)

SpecRace == InitRace /\ [][NextRace]_vars

\* the entries of a track with the latest creation timestamp
NewestByTime(id) ==
  {r \in UpdatesOf(id) : \A q \in UpdatesOf(id) : q.created_at <= r.created_at}

\* C23: once the append-updates of both sessions on a track have completed,
\* the status of the track is the status of its newest update entry
C23_RaceEndsAtNewest ==
  NoAppendInProgress =>
    \A id \in DOMAIN tracks :
      UpdatesOf(id) # {}
        => \E r \in NewestByTime(id) : tracks[id].status = r.status

\* C24: a created track has updated_at and created_at at the time of the
\* insert; every step that changes a track sets its updated_at to the time of
\* the step; the write of an edit or of an append-update that the store
\* applies to a track does so; updated_at never decreases
C24_MutationsRefreshUpdatedAt ==
  [][/\ \A id \in DOMAIN tracks' :
          IF id \notin DOMAIN tracks
          THEN /\ tracks'[id].updated_at = now
               /\ tracks'[id].created_at = now
          ELSE /\ tracks'[id].updated_at >= tracks[id].updated_at
               /\ tracks'[id] # tracks[id] => tracks'[id].updated_at = now
     /\ \A s \in Sessions : \A k \in Slots(s) :
          ( /\ EditWrite(s, k) \/ AddUpdateWrite(s, k)
            /\ ~answer'[s][k].error
            /\ SelectTrack(user[s], tasks[s][k].trackId) # NoTrack )
            => tracks'[tasks[s][k].trackId].updated_at = now
    ]_vars

\* a track was edited, or got an update, at a later time than it was created
C24_Witness ==
  \E id \in DOMAIN tracks :
    /\ tracks[id].updated_at > tracks[id].created_at
    /\ \E s \in Sessions : \E k \in Slots(s) :
         /\ answer[s][k].kind \in {"edit", "addUpdate"}
         /\ answer[s][k].pc = "update"
         /\ ~answer[s][k].error
         /\ answer[s][k].trackId = id

\* C25: the author of every update entry is the owner of the track the entry
\* refers to
C25_AuthorIsTrackOwner ==
  \A r \in track_updates :
    /\ r.track_id \in DOMAIN tracks
    /\ tracks[r.track_id].user_id = r.user_id

\* both identities own a track and one of them has an update entry on its own
C25_Witness ==
  /\ \A uid \in Users : OwnedTracks(uid) # {}
  /\ \E r \in track_updates : r.user_id = "u2"

(***************************************************************************)
(* Dashboard.loadStats called again before earlier calls have returned     *)
(***************************************************************************)

\* most loadStats calls of a session
MaxStatLoads == 2

\* the status column of the rows of uid, in the order of their ids
StatusColumn(uid) ==
  LET ids == SelectTracks(uid)
      Nth(i) == CHOOSE id \in ids :
                  Cardinality({j \in ids : j < id}) = i - 1
  IN  [ i \in 1..Cardinality(ids) |-> tracks[Nth(i)].status ]

\* Dashboard mounts, or handleBack sets a new refreshKey: the effect calls
\* loadStats, which sends its select
CallLoadStats(s) ==
  /\ Len(statsLoads) < MaxStatLoads
  /\ statsLoads' = Append(statsLoads,
                          [ pc |-> "sent", returned |-> FALSE, data |-> << >> ])
  /\ UNCHANGED << env, storeVars, user, uiVars, histVars >>
  /\ UNCHANGED << genVars, filterVars, statsResponse, stats, answer, catVars >>

\* the store runs the select of the i-th call, or the request fails
StatsSelect(s, i) ==
  /\ i \in DOMAIN statsLoads
  /\ statsLoads[i].pc = "sent"
  /\ \E fail \in Failures :
       statsLoads' =
         [ statsLoads EXCEPT ![i] =
             IF fail
             THEN [ pc |-> "answered", returned |-> FALSE, data |-> << >> ]
             ELSE [ pc |-> "answered", returned |-> TRUE,
                    data |-> StatusColumn(user[s]) ] ]
  /\ UNCHANGED << env, storeVars, user, uiVars, histVars >>
  /\ UNCHANGED << genVars, filterVars, statsResponse, stats, answer, catVars >>

\* the answer to the i-th call arrives and loadStats goes on after its await
StatsArrive(s, i) ==
  /\ i \in DOMAIN statsLoads
  /\ statsLoads[i].pc = "answered"
  /\ statsLoads' = [ statsLoads EXCEPT ![i].pc = "done" ]
  /\ statsResponse' = [ returned |-> statsLoads[i].returned,
                        data |-> statsLoads[i].data ]
  /\ stats' = loadStats(statsResponse')
  /\ UNCHANGED << env, storeVars, user, uiVars, histVars >>
  /\ UNCHANGED << genVars, filterVars, answer, catVars >>

NextStatLoads ==
  \/ OtherSubmit
  \/ OtherUpdateTrack
  \/ \E s \in Sessions :
       \/ CallLoadStats(s)
       \/ \E i \in 1..MaxStatLoads :
            \/ StatsSelect(s, i)
            \/ StatsArrive(s, i)

InitStatLoads ==
  /\ env = [ maxTracks |-> 2, maxUpdates |-> 0, maxTime |-> 0,
             titles |-> {"a"}, descriptions |-> {},
             statuses |-> {"completed"}, priorities |-> {},
             rands |-> {1, RandDenom \div 2},
             answers |-> FALSE, failures |-> TRUE ]
  /\ InitStore
  /\ InitUI([ s \in Sessions |-> 1 ])
  /\ InitGen
  /\ InitTrackList
  /\ InitStats
  /\ InitCategories

SpecStatLoads == InitStatLoads /\ [][NextStatLoads]_vars

\* C26: once the answers to all loadStats calls have arrived, the counts on
\* the dashboard are those of the rows returned to the call issued last
C26_LastLoadWins ==
  ( /\ statsLoads # << >>
    /\ \A i \in DOMAIN statsLoads : statsLoads[i].pc = "done"
    /\ statsLoads[Len(statsLoads)].returned )
  => stats = loadStats([ returned |-> TRUE,
                         data |-> statsLoads[Len(statsLoads)].data ])
====
